---- MODULE Spec2Model ----
(***************************************************************************)
(* Task Management API: the task resource's validation rules               *)
(* (app/schemas.py) and its CRUD handlers (app/routers/tasks.py) over a    *)
(* relational store.                                                       *)
(*                                                                         *)
(* Optional values are modelled as sequences of length <= 1: None is <<>>  *)
(* and a present value v is <<v>>.  A title is a sequence of characters,   *)
(* a timestamp is a natural number read from the clock `now`, a due date   *)
(* is a record [t, aware] (the instant, and whether it carries tzinfo).    *)
(* A request payload is a function whose DOMAIN is the set of fields the   *)
(* client supplied (pydantic's fields_set).                                *)
(*                                                                         *)
(* The handlers are `async def` without an await, so within one process a  *)
(* request is served in one step (Create, List, Get, Update, Delete).      *)
(* SpecWorkers splits update_task at its load of the task (UpdateBegin,    *)
(* UpdateCommit) for requests served by separate worker processes over     *)
(* the same store.                                                         *)
(***************************************************************************)
EXTENDS Integers, Sequences, FiniteSets, TLC

VARIABLES store, now, resp, deleted, sess

vars == <<store, now, resp, deleted, sess>>

\* ------------------------------------------------------------- bounds
MaxId == 2
MaxSolo == 1
MaxListed == 3
MaxTime == 1

\* ---------------------------------------------------------- constants
LimitMax == 100
DefaultSkip == 0
DefaultLimit == 10

\* ------------------------------------------------------------- values
None == <<>>
Some(v) == <<v>>
IsNone(o) == Len(o) = 0
Val(o) == o[1]

TaskStatus == {"pending", "in_progress", "completed", "cancelled"}
TaskPriority == {"low", "medium", "high", "urgent"}

Fields == {"title", "description", "status", "priority", "due_date", "assigned_to"}

\* Columns of the task table that do not admit NULL.
NotNullColumns == {"title", "status", "priority"}

IsSpace(c) == c = " "

RECURSIVE LStrip(_)
LStrip(s) == IF s # <<>> /\ IsSpace(Head(s)) THEN LStrip(Tail(s)) ELSE s

RECURSIVE RStrip(_)
RStrip(s) ==
    IF s # <<>> /\ IsSpace(s[Len(s)]) THEN RStrip(SubSeq(s, 1, Len(s) - 1)) ELSE s

\* str.strip()
Strip(s) == RStrip(LStrip(s))

\* obj.field of a pydantic model: the supplied value, else the default None.
Attr(data, f) == IF f \in DOMAIN data THEN data[f] ELSE None

\* ---------------------------------------------------------- validation
Rejected == [ok |-> FALSE, v |-> None]
Accepted(v) == [ok |-> TRUE, v |-> v]

\* A supplied, non-null title is stripped and must not be empty.
validate_title(v) ==
    IF ~IsNone(v)
    THEN LET s == Strip(Val(v)) IN IF s = <<>> THEN Rejected ELSE Accepted(Some(s))
    ELSE Accepted(v)

\* Mutant of validate_due_date: a due date equal to the clock reading passes.
validate_due_date_allow_now(v, t) ==
    IF ~IsNone(v)
    THEN LET u == [t |-> Val(v).t, aware |-> TRUE]
         IN IF u.t < t THEN Rejected ELSE Accepted(Some(u))
    ELSE Accepted(v)

\* A naive datetime is made aware (UTC) and must lie after the clock reading.
validate_due_date(v, t) ==
    IF ~IsNone(v)
    THEN LET u == [t |-> Val(v).t, aware |-> TRUE]
         IN IF u.t <= t THEN Rejected ELSE Accepted(Some(u))
    ELSE Accepted(v)

\* Mutant of validate_enum: any value passes.
validate_enum_any(v, members) == TRUE

\* Optional[TaskStatus] / Optional[TaskPriority]: None or a member.
validate_enum(v, members) == IsNone(v) \/ Val(v) \in members

\* TaskBase: the fields, their validators, extra = forbid.  The result is
\* the normalised payload over the same set of supplied fields.
TaskBase(p, t) ==
    IF ~(DOMAIN p \subseteq Fields) THEN Rejected
    ELSE IF "title" \in DOMAIN p /\ ~validate_title(p["title"]).ok THEN Rejected
    ELSE IF "status" \in DOMAIN p /\ ~validate_enum(p["status"], TaskStatus) THEN Rejected
    ELSE IF "priority" \in DOMAIN p /\ ~validate_enum(p["priority"], TaskPriority)
        THEN Rejected
    ELSE IF "due_date" \in DOMAIN p /\ ~validate_due_date(p["due_date"], t).ok
        THEN Rejected
    ELSE Accepted([f \in DOMAIN p |->
                    IF f = "title" THEN validate_title(p[f]).v
                    ELSE IF f = "due_date" THEN validate_due_date(p[f], t).v
                    ELSE p[f]])

\* TaskCreate: title is a required str (neither missing nor null).
TaskCreate(p, t) ==
    IF "title" \notin DOMAIN p THEN Rejected
    ELSE IF IsNone(p["title"]) THEN Rejected
    ELSE TaskBase(p, t)

\* TaskUpdate: every field optional.
TaskUpdate(p, t) == TaskBase(p, t)

\* ---------------------------------------------------------------- store
\* The table: a sequence of rows in insertion (primary key) order.
StoredIds(s) == {s[i].id : i \in 1..Len(s)}

RECURSIVE MaxOf(_)
MaxOf(S) == IF S = {} THEN 0 ELSE LET x == CHOOSE y \in S : TRUE
                                   m == MaxOf(S \ {x})
                               IN IF x > m THEN x ELSE m

\* The key the store assigns to a new row.
NextId(s) == MaxOf(StoredIds(s)) + 1

\* session.get(Task, task_id): <<row>> or <<>>.
SessionGet(s, id) == SelectSeq(s, LAMBDA r : r.id = id)

\* The NOT NULL constraint a flush checks.
NotNullOk(row) == \A c \in NotNullColumns : ~IsNone(row[c])

RowFields == Fields \cup {"id", "created_at", "updated_at"}

\* ------------------------------------------------------------- handlers
Reply(outcome, s, body) == [outcome |-> outcome, store |-> s, body |-> body]

\* Mutant of create_task: no default for status and priority.
create_task_nodefault(s, p, t) ==
    LET v == TaskCreate(p, t) IN
    IF ~v.ok THEN Reply("unprocessable", s, <<>>)
    ELSE LET task == v.v
             db_task == [id |-> NextId(s),
                         title |-> Some(Strip(Val(task["title"]))),
                         description |-> Attr(task, "description"),
                         status |-> Attr(task, "status"),
                         priority |-> Attr(task, "priority"),
                         due_date |-> Attr(task, "due_date"),
                         assigned_to |-> Attr(task, "assigned_to"),
                         created_at |-> t,
                         updated_at |-> None]
         IN IF NotNullOk(db_task) THEN Reply("created", Append(s, db_task), <<db_task>>)
            ELSE Reply("internal_error", s, <<>>)

create_task(s, p, t) ==
    LET v == TaskCreate(p, t) IN
    IF ~v.ok THEN Reply("unprocessable", s, <<>>)
    ELSE LET task == v.v
             db_task == [id |-> NextId(s),
                         title |-> Some(Strip(Val(task["title"]))),
                         description |-> Attr(task, "description"),
                         status |-> IF IsNone(Attr(task, "status"))
                                    THEN Some("pending") ELSE Attr(task, "status"),
                         priority |-> IF IsNone(Attr(task, "priority"))
                                      THEN Some("medium") ELSE Attr(task, "priority"),
                         due_date |-> Attr(task, "due_date"),
                         assigned_to |-> Attr(task, "assigned_to"),
                         created_at |-> t,
                         updated_at |-> None]
         IN IF NotNullOk(db_task) THEN Reply("created", Append(s, db_task), <<db_task>>)
            ELSE Reply("internal_error", s, <<>>)

get_task(s, id) ==
    LET task == SessionGet(s, id) IN
    IF task = <<>> THEN Reply("not_found", s, <<>>) ELSE Reply("ok", s, task)

\* Mutant of SetAttrs: updated_at is left as it was.
SetAttrs_keep_updated_at(task, update_data, t) ==
    [f \in RowFields |-> IF f \in DOMAIN update_data THEN update_data[f] ELSE task[f]]

\* for key, value in update_data.items(): setattr(task, key, value);
\* task.updated_at = datetime.utcnow()
SetAttrs(task, update_data, t) ==
    [f \in RowFields |->
        IF f = "updated_at" THEN Some(t)
        ELSE IF f \in DOMAIN update_data THEN update_data[f]
        ELSE task[f]]

\* Mutant of CommitUpdate: every attribute of the loaded object is written.
CommitUpdate_whole_row(s, loaded, task) ==
    IF SessionGet(s, loaded.id) = <<>> THEN Reply("internal_error", s, <<>>)
    ELSE IF ~NotNullOk(task) THEN Reply("internal_error", s, <<>>)
    ELSE Reply("ok", [i \in 1..Len(s) |-> IF s[i].id = loaded.id THEN task ELSE s[i]],
               <<task>>)

\* session.commit() of a loaded, modified task: the unit of work issues
\* UPDATE ... SET <the attributes whose value differs from the loaded one>
\* WHERE id = <task.id>, then session.refresh re-reads the row.  A NULL in
\* a NOT NULL column, an UPDATE that matches no row, or a refresh that
\* finds no row raises, which the handler turns into the 500 reply.
CommitUpdate(s, loaded, task) ==
    LET dirty == {f \in RowFields : task[f] # loaded[f]}
        row == SessionGet(s, loaded.id)
    IN IF row = <<>> THEN Reply("internal_error", s, <<>>)
       ELSE LET new == [f \in RowFields |-> IF f \in dirty THEN task[f] ELSE row[1][f]]
            IN IF \E f \in dirty \cap NotNullColumns : IsNone(task[f])
               THEN Reply("internal_error", s, <<>>)
               ELSE Reply("ok",
                          [i \in 1..Len(s) |-> IF s[i].id = loaded.id THEN new ELSE s[i]],
                          <<new>>)

\* Mutant of UpdateCheck: no check for an empty payload.
UpdateCheck_no_empty_check(s, id, p, t) ==
    LET v == TaskUpdate(p, t) IN
    IF ~v.ok THEN [outcome |-> "unprocessable"]
    ELSE LET task == SessionGet(s, id) IN
         IF task = <<>> THEN [outcome |-> "not_found"]
         ELSE [outcome |-> "proceed", update_data |-> v.v, task |-> task[1]]

\* update_task up to the first write: the payload validation of the
\* request body, the load of the task, and the empty-payload check.
UpdateCheck(s, id, p, t) ==
    LET v == TaskUpdate(p, t) IN
    IF ~v.ok THEN [outcome |-> "unprocessable"]
    ELSE LET task == SessionGet(s, id) IN
         IF task = <<>> THEN [outcome |-> "not_found"]
         ELSE IF DOMAIN v.v = {} THEN [outcome |-> "bad_request"]
         ELSE [outcome |-> "proceed", update_data |-> v.v, task |-> task[1]]

update_task(s, id, p, t) ==
    LET c == UpdateCheck(s, id, p, t) IN
    IF c.outcome # "proceed" THEN Reply(c.outcome, s, <<>>)
    ELSE CommitUpdate(s, c.task, SetAttrs(c.task, c.update_data, t))

\* Mutant of delete_task: the delete is never committed.
delete_task_no_commit(s, id) ==
    LET task == SessionGet(s, id) IN
    IF task = <<>> THEN Reply("not_found", s, <<>>) ELSE Reply("no_content", s, <<>>)

delete_task(s, id) ==
    LET task == SessionGet(s, id) IN
    IF task = <<>> THEN Reply("not_found", s, <<>>)
    ELSE Reply("no_content", SelectSeq(s, LAMBDA r : r.id # id), <<>>)

\* Query parameter `name` of a request, or its declared default.
QueryArg(q, name, default) == IF name \in DOMAIN q THEN q[name] ELSE default

\* if status: query.where(Task.status == status); the same for priority.
Matches(r, status, priority) ==
    /\ IsNone(status) \/ r.status = status
    /\ IsNone(priority) \/ r.priority = priority

\* OFFSET n and LIMIT n (n >= 0) of a result.
Offset(rows, n) == SubSeq(rows, n + 1, Len(rows))
Limit(rows, n) == SubSeq(rows, 1, IF n < Len(rows) THEN n ELSE Len(rows))

\* Mutant of list_tasks: LIMIT is applied before OFFSET.
list_tasks_limit_first(s, q) ==
    LET skip == QueryArg(q, "skip", DefaultSkip)
        limit == QueryArg(q, "limit", DefaultLimit)
        status == QueryArg(q, "status", None)
        priority == QueryArg(q, "priority", None)
    IN IF \/ skip < 0
          \/ limit > LimitMax
          \/ ~validate_enum(status, TaskStatus)
          \/ ~validate_enum(priority, TaskPriority)
       THEN {Reply("unprocessable", s, <<>>)}
       ELSE LET rows == SelectSeq(s, LAMBDA r : Matches(r, status, priority))
            IN IF limit < 0
               THEN {Reply("ok", s, Offset(rows, skip)), Reply("internal_error", s, <<>>)}
               ELSE {Reply("ok", s, Offset(Limit(rows, limit), skip))}

\* The replies list_tasks can give.  The query parameters are checked at the
\* boundary (skip: ge=0, limit: le=100, the two enumerations).  A negative
\* limit reaches the store, where it is engine-defined: no limit at all, or
\* a statement error, which the handler turns into the 500 reply.
list_tasks(s, q) ==
    LET skip == QueryArg(q, "skip", DefaultSkip)
        limit == QueryArg(q, "limit", DefaultLimit)
        status == QueryArg(q, "status", None)
        priority == QueryArg(q, "priority", None)
    IN IF \/ skip < 0
          \/ limit > LimitMax
          \/ ~validate_enum(status, TaskStatus)
          \/ ~validate_enum(priority, TaskPriority)
       THEN {Reply("unprocessable", s, <<>>)}
       ELSE LET rows == SelectSeq(s, LAMBDA r : Matches(r, status, priority))
                tasks == Offset(rows, skip)
            IN IF limit < 0
               THEN {Reply("ok", s, tasks), Reply("internal_error", s, <<>>)}
               ELSE {Reply("ok", s, Limit(tasks, limit))}

\* --------------------------------------------------------------- inputs
TitleA == <<"a">>
TitleB == <<" ", "b", " ">>
TitleBlank == <<" ", " ">>

NoArgs == [f \in {} |-> None]

Due(d, aware) == Some([t |-> d, aware |-> aware])

TaskIds == 1..MaxId

\* Request bodies that exercise the field validators, at clock reading t.
CreatePayloads(t) ==
    { [title |-> Some(TitleA)],
      [title |-> Some(TitleB), priority |-> Some("urgent"), due_date |-> Due(t + 1, FALSE)],
      [title |-> Some(TitleA), status |-> None, priority |-> None],
      [title |-> Some(TitleBlank)],
      [title |-> None],
      [description |-> Some("X")],
      [title |-> Some(TitleA), status |-> Some("bogus")],
      [title |-> Some(TitleA), foo |-> Some("x")],
      [title |-> Some(TitleA), due_date |-> Due(t, FALSE)] }

UpdatePayloads ==
    { NoArgs,
      [title |-> Some(TitleB)],
      [title |-> Some(TitleBlank)],
      [title |-> None],
      [status |-> Some("completed")],
      [status |-> None],
      [status |-> Some("bogus")],
      [priority |-> None],
      [foo |-> Some("x")] }

\* Request bodies for the specification that lets the clock advance.
ClockCreatePayloads == { [title |-> Some(TitleA)] }

ClockUpdatePayloads ==
    { NoArgs, [description |-> Some("X")], [title |-> Some(TitleB)], [status |-> None] }

\* Request bodies that carry due dates around the clock's range.
DueCreatePayloads ==
    { [title |-> Some(TitleA)] }
    \cup { [title |-> Some(TitleA), due_date |-> Due(d, a)] :
             d \in 0..(MaxTime + 1), a \in BOOLEAN }

DueUpdatePayloads ==
    { [due_date |-> None] } \cup { [due_date |-> Due(d, FALSE)] : d \in 0..(MaxTime + 1) }

\* Stores and queries for list_tasks.
ListCreatePayloads ==
    { [title |-> Some(TitleA)],
      [title |-> Some(TitleA), status |-> Some("completed")],
      [title |-> Some(TitleA), status |-> Some("completed"), priority |-> Some("high")] }

ListQueries ==
    { NoArgs, [status |-> Some("bogus")], [priority |-> Some("bogus")] }
    \cup { [skip |-> k, limit |-> l, status |-> st, priority |-> pr] :
             k \in (-1)..2,
             l \in {-1, 0, 1, 2, LimitMax, LimitMax + 1},
             st \in {None, Some("completed")},
             pr \in {None, Some("high")} }

\* Request bodies of the overlapping updates.
Workers == {1, 2}

WorkerUpdatePayloads ==
    { [status |-> Some("pending")],
      [status |-> Some("completed"), description |-> Some("X")] }

\* ----------------------------------------------------------------- state
\* store:   the task table
\* now:     the clock that datetime.utcnow() / datetime.now(timezone.utc) read
\* resp:    the last request served and the reply to it
\* deleted: the ids whose delete succeeded and that no create has reused
\* sess:    per worker, the update request in progress between its load of
\*          the task and its commit; `since` collects the fields that other
\*          updates of the same task committed in between
Idle == [pc |-> "idle"]

Init ==
    /\ store = <<>>
    /\ now = 0
    /\ resp = [op |-> "none", id |-> 0, payload |-> NoArgs, outcome |-> "none",
               body |-> <<>>]
    /\ deleted = {}
    /\ sess = [w \in Workers |-> Idle]

Tick ==
    /\ now < MaxTime
    /\ now' = now + 1
    /\ UNCHANGED <<store, resp, deleted, sess>>

Create(p, cap) ==
    LET r == create_task(store, p, now) IN
    /\ r.outcome = "created" => NextId(store) <= cap
    /\ store' = r.store
    /\ resp' = [op |-> "create", id |-> IF r.outcome = "created" THEN r.body[1].id ELSE 0,
                payload |-> p, outcome |-> r.outcome, body |-> r.body]
    /\ deleted' = deleted \ StoredIds(r.store)
    /\ UNCHANGED <<now, sess>>

List(q) ==
    \E r \in list_tasks(store, q) :
        /\ resp' = [op |-> "list", id |-> 0, payload |-> q, outcome |-> r.outcome,
                    body |-> r.body]
        /\ UNCHANGED <<store, now, deleted, sess>>

Get(id) ==
    LET r == get_task(store, id) IN
    /\ resp' = [op |-> "get", id |-> id, payload |-> NoArgs, outcome |-> r.outcome,
                body |-> r.body]
    /\ UNCHANGED <<store, now, deleted, sess>>

Update(id, p) ==
    LET r == update_task(store, id, p, now) IN
    /\ store' = r.store
    /\ resp' = [op |-> "update", id |-> id, payload |-> p, outcome |-> r.outcome,
                body |-> r.body]
    /\ UNCHANGED <<now, deleted, sess>>

Delete(id) ==
    LET r == delete_task(store, id) IN
    /\ store' = r.store
    /\ resp' = [op |-> "delete", id |-> id, payload |-> NoArgs, outcome |-> r.outcome,
                body |-> r.body]
    /\ deleted' = IF r.outcome = "no_content" THEN deleted \cup {id} ELSE deleted
    /\ UNCHANGED <<now, sess>>

\* An update request served by worker w, up to its load of the task.
UpdateBegin(w, id, p) ==
    LET c == UpdateCheck(store, id, p, now) IN
    /\ sess[w].pc = "idle"
    /\ IF c.outcome = "proceed"
       THEN /\ sess' = [sess EXCEPT ![w] = [pc |-> "loaded", id |-> id, payload |-> p,
                                            update_data |-> c.update_data,
                                            task |-> c.task, since |-> {}]]
            /\ UNCHANGED resp
       ELSE /\ resp' = [op |-> "update", id |-> id, payload |-> p,
                        outcome |-> c.outcome, body |-> <<>>]
            /\ UNCHANGED sess
    /\ UNCHANGED <<store, now, deleted>>

\* The rest of that request: setattr, updated_at, commit, refresh, reply.
UpdateCommit(w) ==
    /\ sess[w].pc = "loaded"
    /\ LET me == sess[w]
           r == CommitUpdate(store, me.task, SetAttrs(me.task, me.update_data, now))
       IN /\ store' = r.store
          /\ resp' = [op |-> "update", id |-> me.id, payload |-> me.payload,
                      outcome |-> r.outcome, body |-> r.body, since |-> me.since]
          /\ sess' = [v \in Workers |->
                        IF v = w THEN Idle
                        ELSE IF sess[v].pc = "loaded" /\ sess[v].id = me.id
                                /\ r.outcome = "ok"
                        THEN [sess[v] EXCEPT !.since = @ \cup DOMAIN me.update_data]
                        ELSE sess[v]]
    /\ UNCHANGED <<now, deleted>>

\* ------------------------------------------------------- specifications
\* The handlers serving one request after another at one clock reading.
Next ==
    \/ \E p \in CreatePayloads(now) : Create(p, MaxId)
    \/ \E id \in TaskIds : Get(id)
    \/ \E id \in TaskIds, p \in UpdatePayloads : Update(id, p)
    \/ \E id \in TaskIds : Delete(id)

Spec == Init /\ [][Next]_vars

\* The same with the clock advancing between requests.
NextClock ==
    \/ Tick
    \/ \E p \in ClockCreatePayloads : Create(p, MaxId)
    \/ \E id \in TaskIds : Get(id)
    \/ \E id \in TaskIds, p \in ClockUpdatePayloads : Update(id, p)

SpecClock == Init /\ [][NextClock]_vars

\* Due dates against the advancing clock.
NextDue ==
    \/ Tick
    \/ \E p \in DueCreatePayloads : Create(p, MaxSolo)
    \/ \E id \in 1..MaxSolo, p \in DueUpdatePayloads : Update(id, p)

SpecDue == Init /\ [][NextDue]_vars

\* list_tasks over the stores that creates and deletes build.
NextList ==
    \/ \E p \in ListCreatePayloads : Create(p, MaxListed)
    \/ \E id \in 1..MaxListed : Delete(id)
    \/ \E q \in ListQueries : List(q)

SpecList == Init /\ [][NextList]_vars

\* Update requests of two workers whose loads and commits interleave.
NextWorkers ==
    \/ \E p \in ClockCreatePayloads : Create(p, MaxSolo)
    \/ \E w \in Workers, id \in 1..MaxSolo, p \in WorkerUpdatePayloads : UpdateBegin(w, id, p)
    \/ \E w \in Workers : UpdateCommit(w)
    \/ \E id \in 1..MaxSolo : Delete(id)

SpecWorkers == Init /\ [][NextWorkers]_vars

\* -------------------------------------------------------------- claims
\* A step that serves a request (not a tick of the clock, not a load).
Served == <<store, resp>>' # <<store, resp>>

Row(s, id) == SessionGet(s, id)[1]

BadRequest == {"unprocessable", "bad_request"}

Supplies(p, f) == f \in DOMAIN p

\* What a supplied value is stored as: a title stripped, a due date aware.
Stored(f, v) ==
    IF IsNone(v) THEN v
    ELSE IF f = "title" THEN Some(Strip(Val(v)))
    ELSE IF f = "due_date" THEN Some([t |-> Val(v).t, aware |-> TRUE])
    ELSE v

C2_TitleStoredOrRejected ==
    /\ \A i \in 1..Len(store) :
          /\ ~IsNone(store[i].title)
          /\ Val(store[i].title) # <<>>
          /\ Strip(Val(store[i].title)) = Val(store[i].title)
    /\ (resp.op = "update" /\ resp.id \in StoredIds(store) /\ Supplies(resp.payload, "title"))
          => \/ resp.outcome \in BadRequest
             \/ /\ resp.outcome = "ok"
                /\ ~IsNone(resp.payload["title"])
                /\ Row(store, resp.id).title = Stored("title", resp.payload["title"])

\* C3 as stated: an update with an empty payload is a bad request whatever
\* the id, and leaves the store unchanged.
C3_EmptyUpdateBadRequest ==
    [][(Served /\ resp'.op = "update" /\ DOMAIN resp'.payload = {})
          => (resp'.outcome \in BadRequest /\ store' = store)]_vars

\* C3 as amended: an update with an empty payload is a bad request when the
\* id is stored and not found when it is not; the store is unchanged.
C3_EmptyUpdateRejected ==
    [][(Served /\ resp'.op = "update" /\ DOMAIN resp'.payload = {})
          => /\ store' = store
             /\ resp'.id \in StoredIds(store) => resp'.outcome = "bad_request"
             /\ resp'.id \notin StoredIds(store) => resp'.outcome = "not_found"]_vars

C3_Witness ==
    /\ resp.op = "update"
    /\ DOMAIN resp.payload = {}
    /\ resp.outcome = "bad_request"
    /\ resp.id \in StoredIds(store)

\* The effect of a successful update of task id: the supplied fields take
\* the supplied values, updated_at the clock reading, all else stays, and
\* the reply carries the stored task.
UpdateFrame(id) ==
    LET old == Row(store, id)
        new == Row(store', id)
    IN /\ id \in StoredIds(store)
       /\ Len(store') = Len(store)
       /\ \A i \in 1..Len(store) : store[i].id # id => store'[i] = store[i]
       /\ \A f \in Fields :
             new[f] = IF Supplies(resp'.payload, f) THEN Stored(f, resp'.payload[f])
                      ELSE old[f]
       /\ new.id = old.id
       /\ new.created_at = old.created_at
       /\ new.updated_at = Some(now)
       /\ resp'.body = <<new>>

\* What a get of a stored task returns.
GetReturnsStored ==
    (Served /\ resp'.op = "get" /\ resp'.id \in StoredIds(store))
        => /\ resp'.outcome = "ok"
           /\ resp'.body = <<Row(store, resp'.id)>>
           /\ store' = store

\* C4 as stated: a successful update changes exactly the supplied fields and
\* updated_at, and a get then returns the task with updated_at newer than
\* created_at.
C4_UpdateFrameNewer ==
    [][/\ (Served /\ resp'.op = "update" /\ resp'.outcome = "ok")
            => /\ UpdateFrame(resp'.id)
               /\ Val(Row(store', resp'.id).updated_at) > Row(store', resp'.id).created_at
       /\ GetReturnsStored]_vars

\* C4 as amended: the same, with updated_at not older than created_at.
C4_UpdateFrame ==
    [][/\ (Served /\ resp'.op = "update" /\ resp'.outcome = "ok")
            => /\ UpdateFrame(resp'.id)
               /\ Val(Row(store', resp'.id).updated_at) >= Row(store', resp'.id).created_at
       /\ GetReturnsStored]_vars

\* A get returned an updated task while another task is stored.
C4_Witness ==
    /\ resp.op = "get"
    /\ resp.outcome = "ok"
    /\ ~IsNone(resp.body[1].updated_at)
    /\ resp.body[1].description = Some("X")
    /\ Len(store) >= 2

\* C5: a list request with skip < 0, limit < 1 or limit > 100 is a bad
\* request and returns no entity list.
C5_PagingRejected ==
    (/\ resp.op = "list"
     /\ \/ QueryArg(resp.payload, "skip", DefaultSkip) < 0
        \/ QueryArg(resp.payload, "limit", DefaultLimit) < 1
        \/ QueryArg(resp.payload, "limit", DefaultLimit) > LimitMax)
        => resp.outcome \in BadRequest

\* The stored tasks that pass the filters, in insertion order.
RECURSIVE Filtered(_, _, _)
Filtered(s, st, pr) ==
    IF s = <<>> THEN <<>>
    ELSE LET r == Head(s)
             keep == /\ (st # None => r.status = st)
                     /\ (pr # None => r.priority = pr)
         IN (IF keep THEN <<r>> ELSE <<>>) \o Filtered(Tail(s), st, pr)

\* The reference result: the matches numbered skip+1 .. skip+limit.
Reference(s, skip, limit, st, pr) ==
    LET m == Filtered(s, st, pr)
        n == IF Len(m) - skip < 0 THEN 0
             ELSE IF Len(m) - skip < limit THEN Len(m) - skip ELSE limit
    IN [i \in 1..n |-> m[skip + i]]

\* C6: for skip >= 0 and limit in 1..100 list returns the reference result.
C6_ListIsReference ==
    LET skip == QueryArg(resp.payload, "skip", DefaultSkip)
        limit == QueryArg(resp.payload, "limit", DefaultLimit)
        st == QueryArg(resp.payload, "status", None)
        pr == QueryArg(resp.payload, "priority", None)
    IN (/\ resp.op = "list"
        /\ skip >= 0 /\ limit >= 1 /\ limit <= LimitMax
        /\ (st = None \/ Val(st) \in TaskStatus)
        /\ (pr = None \/ Val(pr) \in TaskPriority))
        => /\ resp.outcome = "ok"
           /\ resp.body = Reference(store, skip, limit, st, pr)
           /\ Len(resp.body) <= limit
           /\ \A i \in 1..Len(resp.body) :
                 /\ st # None => resp.body[i].status = st
                 /\ pr # None => resp.body[i].priority = pr

\* A filtered list skipped a match, was cut by the limit, and left out a
\* stored task that fails the filter.
C6_Witness ==
    /\ resp.op = "list"
    /\ resp.outcome = "ok"
    /\ Supplies(resp.payload, "status")
    /\ resp.payload["status"] = Some("completed")
    /\ resp.payload["skip"] = 1
    /\ resp.payload["limit"] = 1
    /\ Len(resp.body) = 1
    /\ Len(store) = 3
    /\ Len(Filtered(store, Some("completed"), None)) = 2

\* C7: a successful delete removes exactly its task; get, update (with a
\* valid, non-empty payload) and delete of an id that is not stored, so of
\* any deleted id not reused by a create, are not found and change nothing.
C7_DeletedIsGone ==
    [][Served =>
        /\ deleted' \cap StoredIds(store') = {}
        /\ (resp'.op = "delete" /\ resp'.outcome = "no_content")
              => /\ resp'.id \in StoredIds(store)
                 /\ resp'.id \in deleted'
                 /\ store' = SelectSeq(store, LAMBDA r : r.id # resp'.id)
        /\ (/\ resp'.op \in {"get", "update", "delete"}
            /\ resp'.id \in deleted \/ resp'.id \notin StoredIds(store))
              => /\ store' = store
                 /\ (resp'.op = "update" =>
                        (DOMAIN resp'.payload # {} /\ TaskUpdate(resp'.payload, now).ok))
                      => resp'.outcome = "not_found"]_vars

\* A get of a deleted id was not found while another task is stored.
C7_Witness ==
    /\ resp.op = "get"
    /\ resp.id \in deleted
    /\ resp.outcome = "not_found"
    /\ Len(store) >= 1

\* The create payloads C8 speaks of.
ValidCreatePayload(p, t) ==
    /\ DOMAIN p \subseteq Fields
    /\ Supplies(p, "title") /\ ~IsNone(p["title"]) /\ Strip(Val(p["title"])) # <<>>
    /\ Supplies(p, "due_date") => (IsNone(p["due_date"]) \/ Val(p["due_date"]).t > t)
    /\ Supplies(p, "status") => (IsNone(p["status"]) \/ Val(p["status"]) \in TaskStatus)
    /\ Supplies(p, "priority") =>
          (IsNone(p["priority"]) \/ Val(p["priority"]) \in TaskPriority)

\* C8: a create with a valid payload succeeds and appends one task with a
\* fresh id, created_at set, updated_at absent and the defaults for an
\* omitted status and priority; ids stay unique and no request changes the
\* id of a stored task.
C8_CreateFreshId ==
    [][Served =>
        /\ (resp'.op = "create" /\ ValidCreatePayload(resp'.payload, now))
              => /\ resp'.outcome = "created"
                 /\ Len(store') = Len(store) + 1
                 /\ SubSeq(store', 1, Len(store)) = store
                 /\ LET new == store'[Len(store')]
                    IN /\ new.id \notin StoredIds(store)
                       /\ new.id = resp'.id
                       /\ new.created_at = now
                       /\ IsNone(new.updated_at)
                       /\ ~Supplies(resp'.payload, "status") => new.status = Some("pending")
                       /\ ~Supplies(resp'.payload, "priority") =>
                             new.priority = Some("medium")
                       /\ resp'.body = <<new>>
        /\ \A i, j \in 1..Len(store') : i # j => store'[i].id # store'[j].id
        /\ resp'.op # "delete" => \A i \in 1..Len(store) : store'[i].id = store[i].id
        /\ resp'.op = "delete" =>
              \A i \in 1..Len(store') : \E j \in 1..Len(store) : store'[i] = store[j]]_vars

\* A create that omitted status and carried a due date appended a second
\* task behind one that had been updated.
C8_Witness ==
    /\ resp.op = "create"
    /\ resp.outcome = "created"
    /\ ~Supplies(resp.payload, "status")
    /\ Supplies(resp.payload, "due_date")
    /\ Len(store) = 2
    /\ resp.id = 2
    /\ store[1].id = 1
    /\ ~IsNone(store[1].updated_at)

\* C9: a create or update whose due date is not after the clock reading is
\* rejected and changes nothing; a due date that a request stores lies
\* after the clock reading of that request.
C9_DueDateFuture ==
    [][Served =>
        /\ (/\ resp'.op \in {"create", "update"}
            /\ Supplies(resp'.payload, "due_date")
            /\ ~IsNone(resp'.payload["due_date"])
            /\ Val(resp'.payload["due_date"]).t <= now)
              => (resp'.outcome = "unprocessable" /\ store' = store)
        /\ \A i \in 1..Len(store') :
              LET r == store'[i]
                  set == \/ r.id \notin StoredIds(store)
                         \/ Row(store, r.id).due_date # r.due_date
                         \/ /\ resp'.id = r.id
                            /\ resp'.outcome \in {"created", "ok"}
                            /\ Supplies(resp'.payload, "due_date")
              IN (set /\ ~IsNone(r.due_date)) => Val(r.due_date).t > now]_vars

\* A stored due date, accepted when it was in the future, is now past, and
\* an update that sends the same instant again is rejected.
C9_Witness ==
    /\ resp.op = "update"
    /\ resp.outcome = "unprocessable"
    /\ resp.id \in StoredIds(store)
    /\ Supplies(resp.payload, "due_date")
    /\ ~IsNone(Row(store, resp.id).due_date)
    /\ Val(Row(store, resp.id).due_date).t = Val(resp.payload["due_date"]).t
    /\ Val(Row(store, resp.id).due_date).t <= now

\* Worker w commits its update while the task is stored.
Commits(w) ==
    /\ sess[w].pc = "loaded"
    /\ sess'[w].pc = "idle"
    /\ sess[w].id \in StoredIds(store)

\* C10 as stated: overlapping updates of one task both succeed, and every
\* field that both supplied holds the value of the update that commits last.
C10_LastWriterWins ==
    [][\A w \in Workers : Commits(w) =>
          /\ resp'.outcome = "ok"
          /\ \A f \in DOMAIN sess[w].update_data \cap sess[w].since :
                Row(store', sess[w].id)[f] = sess[w].update_data[f]]_vars

\* C10 as amended: they both succeed, and the update that commits last
\* writes the supplied fields whose value differs from the value it loaded;
\* every other field keeps the value the store holds.
C10_LastWriterWritesChanges ==
    [][\A w \in Workers : Commits(w) =>
          /\ resp'.outcome = "ok"
          /\ \A f \in Fields :
                Row(store', sess[w].id)[f] =
                    IF /\ Supplies(sess[w].update_data, f)
                       /\ sess[w].update_data[f] # sess[w].task[f]
                    THEN sess[w].update_data[f]
                    ELSE Row(store, sess[w].id)[f]]_vars

\* An update committed a status after an overlapping update had committed
\* one.
C10_Witness ==
    /\ resp.op = "update"
    /\ resp.outcome = "ok"
    /\ Supplies(resp, "since")
    /\ "status" \in resp.since
    /\ Supplies(resp.payload, "status")

====
